---------------------------- MODULE Spec2Model ----------------------------
(***************************************************************************)
(* The RTP packetizer of camera-toolkit (src/src/rtp_packer.cpp): the      *)
(* Annex-B NAL unit scanner, the FU-A fragmentation state machine and the  *)
(* byte layout of the packets, as a state machine over put and get.        *)
(*                                                                         *)
(* Memory model.  The caller's buffer is the byte sequence mem, placed at  *)
(* address BufBase; a pointer is an address, NULL the null pointer.  The   *)
(* pipeline driver hands the packetizer the encoder's packet buffer, so a  *)
(* later put binds new contents at the same place.  A read at or past the  *)
(* end of mem is undefined behaviour: it yields whatever bytes follow the  *)
(* buffer, here the bytes of slack, chosen afresh by every get.            *)
(***************************************************************************)
EXTENDS Integers, Sequences, FiniteSets

VARIABLES
    impl,      \* the fields of RTPPacker::Impl
    mem,       \* the caller's buffer contents (what inBuffer_ points to)
    nowMs,     \* getCurrentMillisec() - tsStartMillisec_, the clock
    out,       \* what the last get call returned
    sent,      \* the packets returned so far for the NALU under emission
    lastSeq,   \* sequence number read from the last returned packet
    prevSeq,   \* sequence number read from the returned packet before it
    sincePut,  \* packets returned since the last put
    abandoned, \* the last put came while fragments were still unsent
    calledAt,  \* the clock when get was last called
    returned,  \* packets returned in this run (bounds the run)
    emitted,   \* the packets returned since the last put, in order
    idle,      \* get calls since the last put that returned nothing
    enc,       \* the fields of Encoder::Impl and the frames it submitted
    skipped,   \* get calls that raised since the last returned packet
    drv,       \* main: its options, components and position in the capture loop
    cap        \* the fields of Capture::Impl and the V4L2 driver's queue

vars == <<impl, mem, nowMs, out, sent, lastSeq, prevSeq, sincePut, abandoned, calledAt,
         returned, emitted, idle, enc, skipped, drv, cap>>

-----------------------------------------------------------------------------
(* Bounds of the model *)

MaxPacketLength == 3   \* params_.maxPacketLength ranges over 1..MaxPacketLength
MaxNaluLen == 5        \* NAL units of 1..MaxNaluLen bytes (header included)
MaxTailLen == 2        \* unit lengths in a buffer of two NAL units
MaxElapsedMs == 1      \* the clock runs from 0 to MaxElapsedMs
MaxPackets == 3        \* packets returned in one run
WrapMargin == 2        \* a long-running packetizer starts this far below 65536
MaxIdle == 2           \* get calls returning nothing are counted up to MaxIdle
MaxFrames == 3         \* frames handed to Encoder::encode in one run
MaxExcess == 1         \* sizes up to MaxExcess + 1 bytes past the scratch buffer
MaxBuffers == 4        \* the driver grants 2..MaxBuffers capture buffers
MaxImages == 3         \* frames dequeued in a run of the capture device

(* Program constants *)

H264_PAYLOAD_TYPE == 96
MAX_OUTBUF_SIZE == 10240
FU_A == 28
ssrc == 1234
SeqModulus == 65536
NULL == 0

BufBase == NULL + 1
NoSeq == 0 - 1

-----------------------------------------------------------------------------
(* Input buffers *)

StartCode3 == <<0, 0, 1>>
StartCode4 == <<0, 0, 0, 1>>

\* payload bytes all differ, and none is 0 or 1
Ramp(n) == [i \in 1..n |-> 15 + i]

\* A NAL unit of n bytes behind its start code: odd lengths behind the 3-byte
\* start code with header 0x65 (F=0, NRI=3, type 5), even lengths behind the
\* 4-byte start code with header 0xA7 (F=1, NRI=1, type 7)
Unit(n) ==
    (IF n % 2 = 1 THEN StartCode3 \o <<101>> ELSE StartCode4 \o <<167>>) \o Ramp(n - 1)

SingleUnits == {Unit(n) : n \in 1..MaxNaluLen}

TwoUnits == {Unit(n1) \o Unit(n2) : n1 \in 1..MaxTailLen, n2 \in 1..MaxTailLen}

\* degenerate inputs: empty, shorter than a start code, a start code alone,
\* no start code at the front, a trailing zero, a trailing start code
OddBuffers ==
    {<<>>, <<0, 0>>, <<0, 0, 1>>, <<101, 0, 0, 1, 101>>, <<0, 0, 1, 101, 0>>,
     <<0, 0, 1, 101, 0, 0, 1>>}

Contents == SingleUnits \cup TwoUnits \cup OddBuffers

\* Buffer{data, size}: data = NULL (a default Buffer) or data = BufBase with contents
Inputs == {[data |-> NULL, size |-> 0, bytes |-> <<>>]}
             \cup {[data |-> BufBase, size |-> Len(c), bytes |-> c] : c \in Contents}

-----------------------------------------------------------------------------
(* Memory reads *)

SlackLen == Len(StartCode4) + 1
SlackBytes == {0, 1}
NoSlack == [i \in 1..SlackLen |-> 101]

\* A start-code test stops at the first byte that does not match, so bytes
\* past the end are read only when the buffer is empty or ends in 0 or 1.
SlackChoices(m) ==
    IF Len(m) = 0 \/ m[Len(m)] \in {0, 1}
    THEN [1..SlackLen -> SlackBytes]
    ELSE {NoSlack}

Rd(m, slack, a) ==
    LET k == a - BufBase + 1
    IN IF k <= Len(m) THEN m[k] ELSE slack[((k - Len(m) - 1) % SlackLen) + 1]

\* memcpy(dst, src, n)
Copy(m, slack, src, n) == [i \in 1..n |-> Rd(m, slack, src + i - 1)]

isStartCode4(m, slack, buf) ==
    /\ Rd(m, slack, buf) = 0
    /\ Rd(m, slack, buf + 1) = 0
    /\ Rd(m, slack, buf + 2) = 0
    /\ Rd(m, slack, buf + 3) = 1

isStartCode3(m, slack, buf) ==
    /\ Rd(m, slack, buf) = 0
    /\ Rd(m, slack, buf + 1) = 0
    /\ Rd(m, slack, buf + 2) = 1

\* the addresses isStartCode3 reads: && stops at the first mismatch
ReadsOf3(m, slack, buf) ==
    {buf}
      \cup (IF Rd(m, slack, buf) = 0 THEN {buf + 1} ELSE {})
      \cup (IF Rd(m, slack, buf) = 0 /\ Rd(m, slack, buf + 1) = 0 THEN {buf + 2} ELSE {})

\* the addresses isStartCode4 reads
ReadsOf4(m, slack, buf) ==
    {buf}
      \cup (IF Rd(m, slack, buf) = 0 THEN {buf + 1} ELSE {})
      \cup (IF Rd(m, slack, buf) = 0 /\ Rd(m, slack, buf + 1) = 0 THEN {buf + 2} ELSE {})
      \cup (IF Rd(m, slack, buf) = 0 /\ Rd(m, slack, buf + 1) = 0 /\ Rd(m, slack, buf + 2) = 0
            THEN {buf + 3} ELSE {})

\* isStartCode3(p) || isStartCode4(p), and the else-if chain at the cursor:
\* the 4-byte test runs only when the 3-byte test failed
ReadsOfTest(m, slack, p) ==
    ReadsOf3(m, slack, p)
      \cup (IF isStartCode3(m, slack, p) THEN {} ELSE ReadsOf4(m, slack, p))

-----------------------------------------------------------------------------
(* Byte layout *)

\* mutant: the 16-bit field is stored in host (little-endian) order
HostOrder16(x) == <<x % 256, x \div 256>>

BE16(x) == <<x \div 256, x % 256>>
BE32(x) == <<x \div 16777216, (x \div 65536) % 256, (x \div 256) % 256, x % 256>>

\* struct RTPHeader after memset 0: version 2 in the top bits of byte 0,
\* marker in the top bit of byte 1, the rest in network byte order
RTPHeaderBytes(marker, seqNo, timestamp) ==
    <<2 * 64, marker * 128 + H264_PAYLOAD_TYPE>> \o BE16(seqNo) \o BE32(timestamp) \o BE32(ssrc)

\* mutant: the forbidden bit is left out of the rebuilt header
NALUHeaderByteNoF(n) == n.nalRefIdc * 32 + n.nalUnitType

NALUHeaderByte(n) == n.forbiddenBit * 128 + n.nalRefIdc * 32 + n.nalUnitType
\* mutant: nal_ref_idc is not copied into the FU indicator
FUIndicatorByteNoNri(n) == n.forbiddenBit * 128 + FU_A

FUIndicatorByte(n) == n.forbiddenBit * 128 + n.nalRefIdc * 32 + FU_A
\* mutant: the S and E bits change places
FUHeaderByteSwapped(s, e, n) == e * 128 + s * 64 + n.nalUnitType

FUHeaderByte(s, e, n) == s * 128 + e * 64 + n.nalUnitType

\* Buffer(outBuffer_.data(), outSize): the first outSize bytes of the
\* zeroed scratch buffer after `written` was stored at its start
OutBytes(written, outSize) ==
    [i \in 1..outSize |-> IF i <= Len(written) THEN written[i] ELSE 0]

Nothing == [kind |-> "nothing", data |-> <<>>]
Overflow == [kind |-> "overflow", data |-> <<>>]
Packet(bytes) == [kind |-> "packet", data |-> bytes]

Min(S) == CHOOSE x \in S : \A y \in S : x <= y

-----------------------------------------------------------------------------
(* RTPPacker::Impl *)

NoNalu ==
    [startCodeLen |-> 0, data |-> NULL, len |-> 0,
     forbiddenBit |-> 0, nalRefIdc |-> 0, nalUnitType |-> 0]

\* the member initial values, with params_ = {maxPacketLength, ssrc}
Constructed(maxLen) ==
    [maxPacketLength |-> maxLen,
     inBuffer |-> NULL, nextNaluPtr |-> NULL, inBufferSize |-> 0,
     fuCounter |-> 0, lastFuSize |-> 0, fuIndex |-> 0,
     inBufferComplete |-> FALSE, naluComplete |-> TRUE,
     nalu |-> NoNalu, seqNum |-> 0, tsCurrentSample |-> 0]

\* mutant: put leaves the drained flag as it is
putKeepsDrained(s, input) ==
    [s EXCEPT !.inBuffer = input.data,
              !.nextNaluPtr = input.data,
              !.inBufferSize = input.size,
              !.fuCounter = 0,
              !.lastFuSize = 0,
              !.fuIndex = 0,
              !.naluComplete = TRUE]

\* mutant: put also restarts the sequence counter
putResetsSeq(s, input) ==
    [s EXCEPT !.inBuffer = input.data,
              !.nextNaluPtr = input.data,
              !.inBufferSize = input.size,
              !.fuCounter = 0,
              !.lastFuSize = 0,
              !.fuIndex = 0,
              !.inBufferComplete = FALSE,
              !.naluComplete = TRUE,
              !.seqNum = 0]

\* mutant: put rebinds the buffer and leaves the fragmentation cursor alone
putKeepsFragments(s, input) ==
    [s EXCEPT !.inBuffer = input.data,
              !.nextNaluPtr = input.data,
              !.inBufferSize = input.size,
              !.inBufferComplete = FALSE]

\* mutant: the fragment index is not reset when a new buffer is bound
putKeepsFuIndex(s, input) ==
    [s EXCEPT !.inBuffer = input.data,
              !.nextNaluPtr = input.data,
              !.inBufferSize = input.size,
              !.fuCounter = 0,
              !.lastFuSize = 0,
              !.inBufferComplete = FALSE,
              !.naluComplete = TRUE]

put(s, input) ==
    [s EXCEPT !.inBuffer = input.data,
              !.nextNaluPtr = input.data,
              !.inBufferSize = input.size,
              !.fuCounter = 0,
              !.lastFuSize = 0,
              !.fuIndex = 0,
              !.inBufferComplete = FALSE,
              !.naluComplete = TRUE]

\* mutant: the scan does not look for the next start code
ScanStopAtEnd(s, m, slack, first) ==
    IF first < s.inBuffer + s.inBufferSize THEN s.inBuffer + s.inBufferSize ELSE first

\* the scan loop: nextPtr is the first address past the start code plus one
\* that is at or past the buffer end, or where a start code begins
ScanStop(s, m, slack, first) ==
    Min({p \in first..(IF first < s.inBuffer + s.inBufferSize
                       THEN s.inBuffer + s.inBufferSize ELSE first) :
            \/ p - s.inBuffer >= s.inBufferSize
            \/ isStartCode3(m, slack, p)
            \/ isStartCode4(m, slack, p)})

NaluFields(startCodeLen, data, len, b) ==
    [startCodeLen |-> startCodeLen, data |-> data, len |-> len,
     forbiddenBit |-> b \div 128,
     nalRefIdc |-> (b \div 32) % 4,
     nalUnitType |-> b % 32]

\* mutant: bytes that are no start code are taken for a 3-byte one
getNextNaluAssumesStartCode(s, m, slack) ==
    IF s.nextNaluPtr = NULL THEN [ret |-> 0, s |-> s]
    ELSE
      LET curNaluPtr == s.nextNaluPtr
          startCodeLen == IF isStartCode4(m, slack, curNaluPtr) THEN 4 ELSE 3
          nextPtr == ScanStop(s, m, slack, curNaluPtr + startCodeLen + 1)
          data == curNaluPtr + startCodeLen
      IN [ret |-> 1,
          s |-> [s EXCEPT
                   !.nextNaluPtr = IF nextPtr - s.inBuffer >= s.inBufferSize
                                   THEN NULL ELSE nextPtr,
                   !.nalu = NaluFields(startCodeLen, data,
                                       nextPtr - curNaluPtr - startCodeLen,
                                       Rd(m, slack, data))]]

\* [ret, s]: the return value and the fields after the call
getNextNalu(s, m, slack) ==
    IF s.nextNaluPtr = NULL THEN [ret |-> 0, s |-> s]
    ELSE
      LET curNaluPtr == s.nextNaluPtr
          startCodeLen == IF isStartCode3(m, slack, curNaluPtr) THEN 3
                          ELSE IF isStartCode4(m, slack, curNaluPtr) THEN 4
                          ELSE 0
      IN IF startCodeLen = 0 THEN [ret |-> 0 - 1, s |-> s]
         ELSE
           LET nextPtr == ScanStop(s, m, slack, curNaluPtr + startCodeLen + 1)
               data == curNaluPtr + startCodeLen
           IN [ret |-> 1,
               s |-> [s EXCEPT
                        !.nextNaluPtr = IF nextPtr - s.inBuffer >= s.inBufferSize
                                        THEN NULL ELSE nextPtr,
                        !.nalu = NaluFields(startCodeLen, data,
                                            nextPtr - curNaluPtr - startCodeLen,
                                            Rd(m, slack, data))]]

\* the addresses getNextNalu reads in its start-code tests: at the cursor,
\* and at every scanned position that passed the bounds test
ScanReads(s, m, slack) ==
    IF s.nextNaluPtr = NULL THEN {}
    ELSE
      LET curNaluPtr == s.nextNaluPtr
          startCodeLen == IF isStartCode3(m, slack, curNaluPtr) THEN 3
                          ELSE IF isStartCode4(m, slack, curNaluPtr) THEN 4
                          ELSE 0
          nextPtr == ScanStop(s, m, slack, curNaluPtr + startCodeLen + 1)
      IN ReadsOfTest(m, slack, curNaluPtr)
           \cup (IF startCodeLen = 0 THEN {}
                 ELSE UNION {ReadsOfTest(m, slack, p) :
                               p \in {q \in (curNaluPtr + startCodeLen + 1)..nextPtr :
                                        q - s.inBuffer < s.inBufferSize}})

NextSeq(seqNum) == (seqNum + 1) % SeqModulus

\* (getCurrentMillisec() - tsStartMillisec_) * 90.0, for elapsed times whose
\* product fits 32 bits
Timestamp(elapsedMs) == elapsedMs * 90

\* mutant: no special case for an exact multiple
FuCounterOfNoExact(len, maxLen) == len \div maxLen

FuCounterOf(len, maxLen) ==
    IF len % maxLen = 0 THEN len \div maxLen - 1 ELSE len \div maxLen

\* mutant: no special case for an exact multiple
LastFuSizeOfNoExact(len, maxLen) == len % maxLen

LastFuSizeOf(len, maxLen) ==
    IF len % maxLen = 0 THEN maxLen ELSE len % maxLen

\* mutant: the slice of a continuation is counted from the fragment before
FuOffsetOneBack(fuIndex, maxLen) == 1 + (fuIndex - 1) * maxLen

\* mutant: the header byte is not skipped
FuOffsetNoHeader(fuIndex, maxLen) == fuIndex * maxLen

\* source offset of fragment fuIndex inside the NALU
FuOffset(fuIndex, maxLen) == 1 + fuIndex * maxLen

\* mutant: the header byte is not taken off the last size
LastFuPayloadLenWhole(lastFuSize) == lastFuSize

LastFuPayloadLen(lastFuSize) == lastFuSize - 1

\* mutant: the whole-packet path without the capacity check
WholeNaluUnchecked(s, seqNo, m, slack) ==
    LET outSize == s.nalu.len + 12
        written == RTPHeaderBytes(1, seqNo, s.tsCurrentSample)
                     \o <<NALUHeaderByte(s.nalu)>>
                     \o Copy(m, slack, s.nalu.data + 1, s.nalu.len - 1)
    IN [s |-> [s EXCEPT !.naluComplete = TRUE],
        ret |-> Packet(OutBytes(written, outSize))]

\* mutant: a refused packet gives its sequence number back
WholeNaluRollsBack(s, seqNo, m, slack) ==
    LET outSize == s.nalu.len + 12
        written == RTPHeaderBytes(1, seqNo, s.tsCurrentSample)
                     \o <<NALUHeaderByte(s.nalu)>>
                     \o Copy(m, slack, s.nalu.data + 1, s.nalu.len - 1)
    IN IF MAX_OUTBUF_SIZE < outSize THEN [s |-> [s EXCEPT !.seqNum = seqNo], ret |-> Overflow]
       ELSE [s |-> [s EXCEPT !.naluComplete = TRUE],
             ret |-> Packet(OutBytes(written, outSize))]

\* s already holds the new sequence number; seqNo is the one this packet carries
WholeNalu(s, seqNo, m, slack) ==
    LET outSize == s.nalu.len + 12
        written == RTPHeaderBytes(1, seqNo, s.tsCurrentSample)
                     \o <<NALUHeaderByte(s.nalu)>>
                     \o Copy(m, slack, s.nalu.data + 1, s.nalu.len - 1)
    IN IF MAX_OUTBUF_SIZE < outSize THEN [s |-> s, ret |-> Overflow]
       ELSE [s |-> [s EXCEPT !.naluComplete = TRUE],
             ret |-> Packet(OutBytes(written, outSize))]

FirstFu(s, seqNo, m, slack) ==
    LET s1 == [s EXCEPT !.fuCounter = FuCounterOf(s.nalu.len, s.maxPacketLength),
                        !.lastFuSize = LastFuSizeOf(s.nalu.len, s.maxPacketLength),
                        !.fuIndex = 0]
        outSize == s.maxPacketLength + 14
        written == RTPHeaderBytes(0, seqNo, s.tsCurrentSample)
                     \o <<FUIndicatorByte(s.nalu), FUHeaderByte(1, 0, s.nalu)>>
                     \o Copy(m, slack, s.nalu.data + 1, s.maxPacketLength)
    IN IF MAX_OUTBUF_SIZE < outSize THEN [s |-> s1, ret |-> Overflow]
       ELSE [s |-> [s1 EXCEPT !.naluComplete = FALSE, !.fuIndex = 1],
             ret |-> Packet(OutBytes(written, outSize))]

\* mutant: the last fragment goes out without the marker
LastFuNoMarker(s, seqNo, m, slack) ==
    LET outSize == LastFuPayloadLen(s.lastFuSize) + 14
        written == RTPHeaderBytes(0, seqNo, s.tsCurrentSample)
                     \o <<FUIndicatorByte(s.nalu), FUHeaderByte(0, 1, s.nalu)>>
                     \o Copy(m, slack,
                             s.nalu.data + FuOffset(s.fuIndex, s.maxPacketLength),
                             LastFuPayloadLen(s.lastFuSize))
    IN IF MAX_OUTBUF_SIZE < outSize THEN [s |-> s, ret |-> Overflow]
       ELSE [s |-> [s EXCEPT !.naluComplete = TRUE, !.fuIndex = 0],
             ret |-> Packet(OutBytes(written, outSize))]

LastFu(s, seqNo, m, slack) ==
    LET outSize == LastFuPayloadLen(s.lastFuSize) + 14
        written == RTPHeaderBytes(1, seqNo, s.tsCurrentSample)
                     \o <<FUIndicatorByte(s.nalu), FUHeaderByte(0, 1, s.nalu)>>
                     \o Copy(m, slack,
                             s.nalu.data + FuOffset(s.fuIndex, s.maxPacketLength),
                             LastFuPayloadLen(s.lastFuSize))
    IN IF MAX_OUTBUF_SIZE < outSize THEN [s |-> s, ret |-> Overflow]
       ELSE [s |-> [s EXCEPT !.naluComplete = TRUE, !.fuIndex = 0],
             ret |-> Packet(OutBytes(written, outSize))]

\* mutant: a middle fragment does not advance the fragment index
MiddleFuStuck(s, seqNo, m, slack) ==
    LET outSize == s.maxPacketLength + 14
        written == RTPHeaderBytes(0, seqNo, s.tsCurrentSample)
                     \o <<FUIndicatorByte(s.nalu), FUHeaderByte(0, 0, s.nalu)>>
                     \o Copy(m, slack,
                             s.nalu.data + FuOffset(s.fuIndex, s.maxPacketLength),
                             s.maxPacketLength)
    IN IF MAX_OUTBUF_SIZE < outSize THEN [s |-> s, ret |-> Overflow]
       ELSE [s |-> s, ret |-> Packet(OutBytes(written, outSize))]

MiddleFu(s, seqNo, m, slack) ==
    LET outSize == s.maxPacketLength + 14
        written == RTPHeaderBytes(0, seqNo, s.tsCurrentSample)
                     \o <<FUIndicatorByte(s.nalu), FUHeaderByte(0, 0, s.nalu)>>
                     \o Copy(m, slack,
                             s.nalu.data + FuOffset(s.fuIndex, s.maxPacketLength),
                             s.maxPacketLength)
    IN IF MAX_OUTBUF_SIZE < outSize THEN [s |-> s, ret |-> Overflow]
       ELSE [s |-> [s EXCEPT !.fuIndex = s.fuIndex + 1],
             ret |-> Packet(OutBytes(written, outSize))]

\* mutant: a continuation packet is stamped from the clock
FuTimestampFromClock(s, elapsedMs) == Timestamp(elapsedMs)

\* the timestamp of a continuation packet
FuTimestamp(s, elapsedMs) == s.tsCurrentSample

\* mutant: a NALU one byte over the maximum still goes out whole
getThresholdOff(s, m, elapsedMs, slack) ==
    IF s.inBufferComplete THEN [s |-> s, ret |-> Nothing]
    ELSE IF s.naluComplete THEN
      LET r == getNextNalu(s, m, slack)
      IN IF r.ret <= 0
         THEN [s |-> [r.s EXCEPT !.inBufferComplete = TRUE], ret |-> Nothing]
         ELSE
           LET s1 == [r.s EXCEPT !.seqNum = NextSeq(s.seqNum),
                                 !.tsCurrentSample = Timestamp(elapsedMs)]
           IN IF s1.nalu.len <= s1.maxPacketLength + 1
              THEN WholeNalu(s1, s.seqNum, m, slack)
              ELSE FirstFu(s1, s.seqNum, m, slack)
    ELSE
      LET s1 == [s EXCEPT !.seqNum = NextSeq(s.seqNum),
                          !.tsCurrentSample = FuTimestamp(s, elapsedMs)]
      IN IF s1.fuIndex = s1.fuCounter
         THEN LastFu(s1, s.seqNum, m, slack)
         ELSE MiddleFu(s1, s.seqNum, m, slack)

\* mutant: every call that gets past the exhaustion test takes a sequence number
getCountsEveryCall(s, m, elapsedMs, slack) ==
    IF s.inBufferComplete THEN [s |-> s, ret |-> Nothing]
    ELSE IF s.naluComplete THEN
      LET r == getNextNalu(s, m, slack)
      IN IF r.ret <= 0
         THEN [s |-> [r.s EXCEPT !.inBufferComplete = TRUE, !.seqNum = NextSeq(s.seqNum)],
               ret |-> Nothing]
         ELSE
           LET s1 == [r.s EXCEPT !.seqNum = NextSeq(s.seqNum),
                                 !.tsCurrentSample = Timestamp(elapsedMs)]
           IN IF s1.nalu.len <= s1.maxPacketLength
              THEN WholeNalu(s1, s.seqNum, m, slack)
              ELSE FirstFu(s1, s.seqNum, m, slack)
    ELSE
      LET s1 == [s EXCEPT !.seqNum = NextSeq(s.seqNum),
                          !.tsCurrentSample = FuTimestamp(s, elapsedMs)]
      IN IF s1.fuIndex = s1.fuCounter
         THEN LastFu(s1, s.seqNum, m, slack)
         ELSE MiddleFu(s1, s.seqNum, m, slack)

\* [s, ret]: the fields after the call and what it returns
get(s, m, elapsedMs, slack) ==
    IF s.inBufferComplete THEN [s |-> s, ret |-> Nothing]
    ELSE IF s.naluComplete THEN
      LET r == getNextNalu(s, m, slack)
      IN IF r.ret <= 0
         THEN [s |-> [r.s EXCEPT !.inBufferComplete = TRUE], ret |-> Nothing]
         ELSE
           LET s1 == [r.s EXCEPT !.seqNum = NextSeq(s.seqNum),
                                 !.tsCurrentSample = Timestamp(elapsedMs)]
           IN IF s1.nalu.len <= s1.maxPacketLength
              THEN WholeNalu(s1, s.seqNum, m, slack)
              ELSE FirstFu(s1, s.seqNum, m, slack)
    ELSE
      LET s1 == [s EXCEPT !.seqNum = NextSeq(s.seqNum),
                          !.tsCurrentSample = FuTimestamp(s, elapsedMs)]
      IN IF s1.fuIndex = s1.fuCounter
         THEN LastFu(s1, s.seqNum, m, slack)
         ELSE MiddleFu(s1, s.seqNum, m, slack)

-----------------------------------------------------------------------------
(* Reading a packet back *)

MarkerOf(p) == p[2] \div 128
SeqOf(p) == p[3] * 256 + p[4]
TimestampOf(p) == ((p[5] * 256 + p[6]) * 256 + p[7]) * 256 + p[8]
IsFuA(p) == Len(p) >= 14 /\ p[13] % 32 = FU_A
SBit(p) == p[14] \div 128
EBit(p) == (p[14] \div 64) % 2
FuPayload(p) == SubSeq(p, 15, Len(p))
WholePayload(p) == SubSeq(p, 14, Len(p))

-----------------------------------------------------------------------------
(* Encoder::Impl (src/src/encoder.cpp): the frame it reuses for every call  *)
(* and the frames it handed to avcodec_send_frame                          *)

AV_PICTURE_TYPE_NONE == 0
AV_PICTURE_TYPE_I == 1

\* after the constructor: av_frame_alloc leaves pict_type NONE and sets
\* key_frame as the library version does
EncoderOpened(keyDefault) ==
    [pict_type |-> AV_PICTURE_TYPE_NONE, key_frame |-> keyDefault, frameCounter |-> 0,
     forced |-> FALSE, submitted |-> <<>>, result |-> "none"]

\* what avcodec_send_frame returns, and what avcodec_receive_packet gives
\* after a frame was accepted
SendResults == {0, -1}
ReceiveOutcomes == {"delayed", "error", "I", "P", "B"}

forceIFrame(e) ==
    [e EXCEPT !.pict_type = AV_PICTURE_TYPE_I, !.key_frame = 1,
              !.forced = TRUE, !.result = "none"]

\* the frame as avcodec_send_frame sees it; forced tells whether forceIFrame
\* was called since the previous encode
SubmittedFrame(e, sendRet) ==
    [pict_type |-> e.pict_type, key_frame |-> e.key_frame, pts |-> e.frameCounter,
     forced |-> e.forced, ret |-> sendRet]

\* mutant: the flags are cleared only once the frame was accepted
encodeClearsOnSuccess(e, sendRet, recv) ==
    LET sentFrame == [e EXCEPT !.frameCounter = e.frameCounter + 1,
                               !.submitted = Append(e.submitted, SubmittedFrame(e, sendRet)),
                               !.forced = FALSE]
    IN IF sendRet < 0 THEN [sentFrame EXCEPT !.result = "EncodeException"]
       ELSE LET cleared == [sentFrame EXCEPT !.pict_type = AV_PICTURE_TYPE_NONE, !.key_frame = 0]
            IN IF recv = "delayed" THEN [cleared EXCEPT !.result = "empty"]
               ELSE IF recv = "error" THEN [cleared EXCEPT !.result = "EncodeException"]
               ELSE [cleared EXCEPT !.result = recv]

encode(e, sendRet, recv) ==
    LET cleared == [e EXCEPT !.frameCounter = e.frameCounter + 1,
                             !.submitted = Append(e.submitted, SubmittedFrame(e, sendRet)),
                             !.forced = FALSE,
                             !.pict_type = AV_PICTURE_TYPE_NONE,
                             !.key_frame = 0]
    IN IF sendRet < 0 THEN [cleared EXCEPT !.result = "EncodeException"]
       ELSE IF recv = "delayed" THEN [cleared EXCEPT !.result = "empty"]
       ELSE IF recv = "error" THEN [cleared EXCEPT !.result = "EncodeException"]
       ELSE [cleared EXCEPT !.result = recv]

-----------------------------------------------------------------------------
(* Capture::Impl (src/unnamed/part_003, capture.cpp) and the V4L2 driver's  *)
(* side of its buffers: queued holds the indices the driver owns            *)

NoBuffer == 0 - 1

\* after the constructor: the device is open, count buffers are mapped,
\* none is queued
CaptureOpened(count) ==
    [fd |-> 3, count |-> count, streaming |-> FALSE,
     v4lBufPut |-> TRUE, v4lBufIndex |-> 0, imageCounter |-> 0,
     queued |-> {}, handed |-> NoBuffer, requeues |-> 0, queuedTwice |-> FALSE,
     result |-> "none"]

BufferIndices(c) == 0..(c.count - 1)

\* VIDIOC_QBUF of buffer i, accepted by the driver
QBuf(c, i) ==
    [c EXCEPT !.queued = c.queued \cup {i},
              !.queuedTwice = c.queuedTwice \/ i \in c.queued,
              !.requeues = IF i = c.handed THEN c.requeues + 1 ELSE c.requeues]

\* outcomes of start: the index at which VIDIOC_QBUF failed (count: none did)
\* and whether VIDIOC_STREAMON succeeded
RECURSIVE QBufUpTo(_, _)
QBufUpTo(c, n) == IF n = 0 THEN c ELSE QBuf(QBufUpTo(c, n - 1), n - 1)

start(c, failedAt, streamOn) ==
    IF failedAt < c.count
    THEN [QBufUpTo(c, failedAt) EXCEPT !.result = "CaptureException"]
    ELSE IF ~streamOn
    THEN [QBufUpTo(c, c.count) EXCEPT !.result = "CaptureException"]
    ELSE [QBufUpTo(c, c.count) EXCEPT !.v4lBufPut = TRUE, !.streaming = TRUE,
                                      !.result = "started"]

\* VIDIOC_STREAMOFF takes every buffer out of the driver's queues
stop(c) == [c EXCEPT !.streaming = FALSE, !.queued = {}, !.result = "stopped"]

\* what VIDIOC_DQBUF can give once the queue is q: -1 with errno EAGAIN, -1
\* with another errno, or the index of a filled buffer out of q
Again == 0 - 11
Failed == 0 - 5
DqbufOutcomes(q) == {Again, Failed} \cup q

\* after the re-queue step: memset of v4lBuf_, then VIDIOC_DQBUF
Dequeue(c, dq) ==
    LET zeroed == [c EXCEPT !.v4lBufIndex = 0]
    IN IF dq = Again THEN [zeroed EXCEPT !.result = "again"]
       ELSE IF dq = Failed THEN [zeroed EXCEPT !.result = "CaptureException"]
       ELSE [zeroed EXCEPT !.queued = c.queued \ {dq},
                           !.v4lBufIndex = dq,
                           !.v4lBufPut = FALSE,
                           !.imageCounter = c.imageCounter + 1,
                           !.handed = dq,
                           !.requeues = 0,
                           !.result = "buffer"]

\* mutant: the flag is not set after the buffer was given back
getDataForgetsRequeue(c, selectRet, qbufRet, dq) ==
    IF selectRet = 0 - 1 THEN [c EXCEPT !.result = "CaptureException"]
    ELSE IF selectRet = 0 THEN [c EXCEPT !.result = "timeout"]
    ELSE IF ~c.v4lBufPut /\ qbufRet = 0 - 1 THEN [c EXCEPT !.result = "CaptureException"]
    ELSE LET requeued == IF ~c.v4lBufPut THEN QBuf(c, c.v4lBufIndex) ELSE c
         IN Dequeue(requeued, IF dq \in DqbufOutcomes(requeued.queued)
                              THEN dq ELSE Again)

\* getData: selectRet and qbufRet are what select and VIDIOC_QBUF return, dq
\* what VIDIOC_DQBUF gives (a buffer only if the driver holds it)
getData(c, selectRet, qbufRet, dq) ==
    IF selectRet = 0 - 1 THEN [c EXCEPT !.result = "CaptureException"]
    ELSE IF selectRet = 0 THEN [c EXCEPT !.result = "timeout"]
    ELSE IF ~c.v4lBufPut /\ qbufRet = 0 - 1 THEN [c EXCEPT !.result = "CaptureException"]
    ELSE LET requeued == IF ~c.v4lBufPut
                         THEN [QBuf(c, c.v4lBufIndex) EXCEPT !.v4lBufPut = TRUE]
                         ELSE c
         IN Dequeue(requeued, IF dq \in DqbufOutcomes(requeued.queued)
                              THEN dq ELSE Again)

-----------------------------------------------------------------------------
(* main (src/src/camera_toolkit.cpp): the stage mask, the components it     *)
(* constructs and one pass of the capture loop                              *)

\* (stage & (1 << k)) != 0
Bit(stage, k) == (stage \div (2 ^ k)) % 2 = 1

\* after the options were parsed
Parsed(stage, yuv420, netConfigured) ==
    [pc |-> "options", stage |-> stage, yuv420 |-> yuv420, netConfigured |-> netConfigured,
     built |-> {}, used |-> {}, dumped |-> "none", sendFailed |-> FALSE, exitCode |-> 0]

\* mutant: the encoder is made only when its output is to be packed
ComponentsEncoderForPacker(stage) ==
    {"capture", "timestamp"}
      \cup (IF Bit(stage, 0) THEN {"convert"} ELSE {})
      \cup (IF Bit(stage, 1) /\ Bit(stage, 2) THEN {"encoder"} ELSE {})
      \cup (IF Bit(stage, 2) THEN {"packer"} ELSE {})
      \cup (IF Bit(stage, 3) THEN {"network"} ELSE {})

\* the components main constructs for a stage mask
Components(stage) ==
    {"capture", "timestamp"}
      \cup (IF Bit(stage, 0) THEN {"convert"} ELSE {})
      \cup (IF Bit(stage, 1) THEN {"encoder"} ELSE {})
      \cup (IF Bit(stage, 2) THEN {"packer"} ELSE {})
      \cup (IF Bit(stage, 3) THEN {"network"} ELSE {})

Exit(d, code) == [d EXCEPT !.pc = "exit", !.exitCode = code]

\* construction and capture->start(): ctorOk is false when one of them throws
Construct(d, ctorOk) ==
    IF Bit(d.stage, 3) /\ ~d.netConfigured THEN Exit(d, 0 - 1)
    ELSE IF ~ctorOk THEN Exit(d, 0 - 1)
    ELSE [d EXCEPT !.pc = "loop", !.built = Components(d.stage), !.used = {"capture"}]

\* a pass of the loop gets as far as encoder->encode
ReachesEncode(d, quit, capRes) ==
    ~quit /\ capRes = "buffer" /\ Bit(d.stage, 0) /\ Bit(d.stage, 1)

\* one pass of the capture loop up to packer->put: quit is the flag SIGINT
\* sets, capRes what capture->getData gave, encResult what encode gave;
\* pc "put" stands for the call of packer->put
Pass(d, quit, capRes, encResult) ==
    LET captured == [d EXCEPT !.used = d.used \cup {"capture"}]
        converted == [captured EXCEPT
                        !.used = captured.used \cup {"timestamp"}
                                   \cup (IF d.yuv420 THEN {} ELSE {"convert"})]
        encoded == [converted EXCEPT !.used = converted.used \cup {"encoder"}]
    IN IF quit THEN Exit(captured, 0)
       ELSE IF capRes = "CaptureException" THEN Exit(captured, 0 - 1)
       ELSE IF capRes = "empty" THEN captured
       ELSE IF ~Bit(d.stage, 0) THEN [captured EXCEPT !.dumped = "capture"]
       ELSE IF ~Bit(d.stage, 1) THEN [converted EXCEPT !.dumped = "convert"]
       ELSE IF encResult = "EncodeException" THEN Exit(encoded, 0 - 1)
       ELSE IF encResult = "empty" THEN encoded
       ELSE IF ~Bit(d.stage, 2) THEN [encoded EXCEPT !.dumped = "encode"]
       ELSE [encoded EXCEPT !.pc = "put", !.used = encoded.used \cup {"packer"},
                            !.sendFailed = FALSE]

\* mutant: a failed send leaves the packing loop
AfterSendStopsOnFailure(sendOk) == IF sendOk THEN "drain" ELSE "loop"

\* where main goes on after network->send
AfterSend(sendOk) == "drain"

\* the body of while (auto packet = packer->get()) for what get gave
Drained(d, kind, sendOk) ==
    LET packed == [d EXCEPT !.used = d.used \cup {"packer"}]
    IN IF kind = "overflow" THEN Exit(packed, 0 - 1)
       ELSE IF kind = "nothing" THEN [packed EXCEPT !.pc = "loop"]
       ELSE IF ~Bit(d.stage, 3) THEN [packed EXCEPT !.dumped = "packet"]
       ELSE [packed EXCEPT !.used = packed.used \cup {"network"},
                           !.sendFailed = d.sendFailed \/ ~sendOk,
                           !.pc = AfterSend(sendOk)]

-----------------------------------------------------------------------------
(* The state machine *)

NoCall == [kind |-> "none", data |-> <<>>]

\* the stages around the packetizer
Stages == <<enc, drv, cap>>

\* no pipeline driver and no capture device in this run
NotRunning == [pc |-> "none"]
NotOpened == [fd |-> 0 - 1]

\* a packetizer just constructed
InitConstructed ==
    /\ impl \in {Constructed(maxLen) : maxLen \in 1..MaxPacketLength}
    /\ lastSeq = NoSeq
    /\ prevSeq = NoSeq

\* a packetizer that has returned SeqModulus - WrapMargin packets, one for
\* each of as many one-unit buffers, and was then given a default Buffer
InitLongRunning ==
    /\ impl \in {[Constructed(maxLen) EXCEPT
                    !.seqNum = SeqModulus - WrapMargin,
                    !.nalu = NaluFields(3, BufBase + 3, 1, 101)] :
                 maxLen \in 1..MaxPacketLength}
    /\ lastSeq = SeqModulus - WrapMargin - 1
    /\ prevSeq = SeqModulus - WrapMargin - 2

\* the packetizer's caller before its first call
InitCaller ==
    /\ mem = <<>>
    /\ nowMs = 0
    /\ out = NoCall
    /\ sent = <<>>
    /\ sincePut = 0
    /\ abandoned = FALSE
    /\ calledAt = 0
    /\ returned = 0
    /\ emitted = <<>>
    /\ idle = 0
    /\ skipped = 0

Init ==
    /\ InitConstructed \/ InitLongRunning
    /\ InitCaller
    /\ enc = EncoderOpened(1)
    /\ drv = NotRunning
    /\ cap = NotOpened

\* put(input), with the caller's buffer holding input.bytes
PutCall(input) ==
    /\ impl' = put(impl, input)
    /\ mem' = input.bytes
    /\ out' = NoCall
    /\ sent' = <<>>
    /\ sincePut' = 0
    /\ abandoned' = ~impl.naluComplete
    /\ emitted' = <<>>
    /\ idle' = 0
    /\ UNCHANGED <<nowMs, lastSeq, prevSeq, calledAt, returned, skipped>>

Put ==
    /\ \E input \in Inputs : PutCall(input)
    /\ UNCHANGED Stages

\* a get call that ends as r = [s, ret]
GetCall(r) ==
    /\ impl' = r.s
    /\ out' = r.ret
    /\ IF r.ret.kind = "packet"
       THEN /\ sent' = IF impl.naluComplete THEN <<r.ret.data>>
                       ELSE Append(sent, r.ret.data)
            /\ lastSeq' = SeqOf(r.ret.data)
            /\ prevSeq' = lastSeq
            /\ sincePut' = sincePut + 1
            /\ returned' = returned + 1
            /\ emitted' = Append(emitted, r.ret.data)
            /\ skipped' = 0
            /\ UNCHANGED idle
       ELSE /\ sent' = IF r.ret.kind = "overflow" /\ impl.naluComplete
                       THEN <<>> ELSE sent
            /\ idle' = IF r.ret.kind = "nothing" /\ idle < MaxIdle
                       THEN idle + 1 ELSE idle
            /\ skipped' = IF r.ret.kind = "overflow" THEN skipped + 1 ELSE skipped
            /\ UNCHANGED <<lastSeq, prevSeq, sincePut, returned, emitted>>
    /\ calledAt' = nowMs
    /\ UNCHANGED <<mem, nowMs, abandoned>>

\* a run returns at most MaxPackets packets
Get ==
    \E slack \in SlackChoices(mem) :
        LET r == get(impl, mem, nowMs, slack)
        IN /\ r.ret.kind = "packet" => returned < MaxPackets
           /\ GetCall(r)
           /\ UNCHANGED Stages

Tick ==
    /\ nowMs < MaxElapsedMs
    /\ nowMs' = nowMs + 1
    /\ UNCHANGED <<impl, mem, out, sent, lastSeq, prevSeq, sincePut, abandoned, calledAt,
                   returned, emitted, idle, enc, skipped, drv, cap>>

Next == Put \/ Get \/ Tick

Spec == Init /\ [][Next]_vars

-----------------------------------------------------------------------------
(* Runs near the capacity of the scratch buffer: maxPacketLength from the   *)
(* largest value whose fragments fit, and NAL units around the largest one  *)
(* that fits whole                                                          *)

FuFit == MAX_OUTBUF_SIZE - 14
WholeFit == MAX_OUTBUF_SIZE - 12

LargeUnit(n) == StartCode3 \o <<101>> \o [i \in 1..(n - 1) |-> 16 + (i % 199)]

LargeLens == (WholeFit - 1)..(WholeFit + 1 + MaxExcess)

\* a unit that fits neither whole nor as a first fragment once maxPacketLength
\* is above FuFit
SkipLen == WholeFit + 1

\* one and two such units between two small ones
SkipContents ==
    {Unit(1) \o LargeUnit(SkipLen) \o Unit(1),
     Unit(1) \o LargeUnit(SkipLen) \o LargeUnit(SkipLen) \o Unit(1)}

LargeContents ==
    {LargeUnit(n) : n \in LargeLens} \cup {LargeUnit(n) \o Unit(1) : n \in LargeLens}
      \cup SkipContents

LargeInputs == {[data |-> BufBase, size |-> Len(c), bytes |-> c] : c \in LargeContents}

InitOverflow ==
    /\ impl \in {Constructed(maxLen) : maxLen \in FuFit..(WholeFit + MaxExcess)}
    /\ lastSeq = NoSeq
    /\ prevSeq = NoSeq
    /\ InitCaller
    /\ enc = EncoderOpened(1)
    /\ drv = NotRunning
    /\ cap = NotOpened

\* one buffer per run
PutLarge ==
    /\ impl.inBuffer = NULL
    /\ \E input \in LargeInputs : PutCall(input)
    /\ UNCHANGED Stages

NextOverflow == PutLarge \/ Get \/ Tick

SpecOverflow == InitOverflow /\ [][NextOverflow]_vars

-----------------------------------------------------------------------------
(* The pipeline driver's use of the packetizer: put a buffer, then get in   *)
(* a loop until it returns nothing, and only then the next put              *)
(* (src/src/camera_toolkit.cpp).  The driver is sequential code that keeps  *)
(* running, hence the weak fairness of its steps.  A buffer of n bytes is   *)
(* given n + 1 packets to drain in, and a run ends with the first buffer    *)
(* that gave packets.                                                       *)

DrainPut ==
    /\ out.kind = "nothing" \/ impl.inBuffer = NULL
    /\ returned = 0
    /\ \E input \in Inputs : PutCall(input)
    /\ UNCHANGED Stages

DrainGet ==
    /\ sincePut <= Len(mem) + 1
    /\ \E slack \in SlackChoices(mem) :
         \E r \in {get(impl, mem, nowMs, slack)} : GetCall(r)
    /\ UNCHANGED Stages

NextDrain == DrainPut \/ DrainGet

SpecDrain == Init /\ [][NextDrain]_vars /\ WF_vars(NextDrain)

------------------------------------------------------------------------------
(* The encoder on its own: forceIFrame and encode in any order              *)

PackerVars ==
    <<impl, mem, nowMs, out, sent, lastSeq, prevSeq, sincePut, abandoned, calledAt,
      returned, emitted, idle, skipped>>

InitEncoder ==
    /\ impl = Constructed(MaxPacketLength)
    /\ lastSeq = NoSeq
    /\ prevSeq = NoSeq
    /\ InitCaller
    /\ enc \in {EncoderOpened(keyDefault) : keyDefault \in {0, 1}}
    /\ drv = NotRunning
    /\ cap = NotOpened

ForceIFrame ==
    /\ enc' = forceIFrame(enc)
    /\ UNCHANGED PackerVars
    /\ UNCHANGED <<drv, cap>>

Encode ==
    /\ enc.frameCounter < MaxFrames
    /\ \E sendRet \in SendResults, recv \in ReceiveOutcomes :
         enc' = encode(enc, sendRet, recv)
    /\ UNCHANGED PackerVars
    /\ UNCHANGED <<drv, cap>>

NextEncoder == ForceIFrame \/ Encode

SpecEncoder == InitEncoder /\ [][NextEncoder]_vars

-----------------------------------------------------------------------------
(* The capture device on its own: start, getData in a loop, stop            *)

InitCapture ==
    /\ impl = Constructed(MaxPacketLength)
    /\ lastSeq = NoSeq
    /\ prevSeq = NoSeq
    /\ InitCaller
    /\ enc = EncoderOpened(1)
    /\ drv = NotRunning
    /\ cap \in {CaptureOpened(count) : count \in 2..MaxBuffers}

CaptureStart ==
    /\ ~cap.streaming /\ cap.result = "none"
    /\ \E failedAt \in 0..cap.count, streamOn \in BOOLEAN :
         cap' = start(cap, failedAt, streamOn)
    /\ UNCHANGED PackerVars
    /\ UNCHANGED <<enc, drv>>

GetData ==
    /\ cap.streaming
    /\ cap.imageCounter < MaxImages
    /\ \E selectRet \in {0 - 1, 0, 1}, qbufRet \in {0 - 1, 0},
          dq \in DqbufOutcomes(BufferIndices(cap)) :
         cap' = getData(cap, selectRet, qbufRet, dq)
    /\ UNCHANGED PackerVars
    /\ UNCHANGED <<enc, drv>>

CaptureStop ==
    /\ cap.streaming
    /\ cap' = stop(cap)
    /\ UNCHANGED PackerVars
    /\ UNCHANGED <<enc, drv>>

NextCapture == CaptureStart \/ GetData \/ CaptureStop

SpecCapture == InitCapture /\ [][NextCapture]_vars

-----------------------------------------------------------------------------
(* The pipeline driver: every stage mask and both pixel formats, with       *)
(* maxPacketLength scaled down to MaxPacketLength and, to reach the         *)
(* PackException, set just above the largest value whose fragments fit      *)

StageMasks == 0..15

DriverMaxLens == {MaxPacketLength, FuFit + 1}

\* what the encoder hands to the packetizer
FrameContents(maxLen) ==
    IF maxLen <= MaxPacketLength
    THEN {Unit(1), Unit(MaxNaluLen), Unit(1) \o Unit(2), <<101, 0, 0, 1, 101>>}
    ELSE {LargeUnit(SkipLen)}

FrameInputs(maxLen) ==
    {[data |-> BufBase, size |-> Len(c), bytes |-> c] : c \in FrameContents(maxLen)}

InitDriver ==
    /\ drv \in {Parsed(stage, yuv420, netConfigured) :
                  stage \in StageMasks, yuv420 \in BOOLEAN, netConfigured \in BOOLEAN}
    /\ impl \in {Constructed(maxLen) : maxLen \in DriverMaxLens}
    /\ Bit(drv.stage, 2) \/ impl.maxPacketLength = MaxPacketLength
    /\ lastSeq = NoSeq
    /\ prevSeq = NoSeq
    /\ InitCaller
    /\ enc = EncoderOpened(1)
    /\ cap = NotOpened

DriverConstruct ==
    /\ drv.pc = "options"
    /\ \E ctorOk \in BOOLEAN : drv' = Construct(drv, ctorOk)
    /\ UNCHANGED PackerVars
    /\ UNCHANGED <<enc, cap>>

DriverPass ==
    /\ drv.pc = "loop"
    /\ enc.frameCounter < MaxFrames
    /\ \E quit \in BOOLEAN, capRes \in {"empty", "buffer", "CaptureException"},
          sendRet \in SendResults, recv \in ReceiveOutcomes,
          input \in FrameInputs(impl.maxPacketLength) :
         LET e == IF ReachesEncode(drv, quit, capRes) THEN encode(enc, sendRet, recv) ELSE enc
             d == Pass(drv, quit, capRes, e.result)
         IN /\ enc' = e
            /\ IF d.pc = "put"
               THEN drv' = [d EXCEPT !.pc = "drain"] /\ PutCall(input)
               ELSE drv' = d /\ UNCHANGED PackerVars
    /\ UNCHANGED cap

DriverDrain ==
    /\ drv.pc = "drain"
    /\ \E slack \in SlackChoices(mem), sendOk \in BOOLEAN :
         \E r \in {get(impl, mem, nowMs, slack)} :
            /\ GetCall(r)
            /\ drv' = Drained(drv, r.ret.kind, sendOk)
    /\ UNCHANGED <<enc, cap>>

NextDriver == DriverConstruct \/ DriverPass \/ DriverDrain

SpecDriver == InitDriver /\ [][NextDriver]_vars

-----------------------------------------------------------------------------
(* Vocabulary of the properties *)

Max == impl.maxPacketLength
Nalu == impl.nalu

\* n bytes of the buffer from address a; a byte outside the buffer shows as -1
Slice(a, n) ==
    [i \in 1..n |-> IF a - BufBase + i >= 1 /\ a - BufBase + i <= Len(mem)
                    THEN mem[a - BufBase + i] ELSE 0 - 1]

\* the current NALU view lies inside the bound buffer
InBuffer == Nalu.data >= BufBase /\ Nalu.data - BufBase + Nalu.len <= Len(mem)

\* sent holds packets of a NALU that needed fragmentation
Fragmented == sent # <<>> /\ Nalu.len > Max

\* sent holds every packet of its NALU
Completed == sent # <<>> /\ impl.naluComplete

RECURSIVE ConcatPayloads(_)
ConcatPayloads(pkts) ==
    IF pkts = <<>> THEN <<>> ELSE FuPayload(Head(pkts)) \o ConcatPayloads(Tail(pkts))

-----------------------------------------------------------------------------
C2_WholePacket ==
    (out.kind = "packet" /\ Nalu.len <= Max) =>
        /\ sent = <<out.data>>
        /\ impl.naluComplete
        /\ MarkerOf(out.data) = 1
        /\ Len(out.data) = 12 + Nalu.len
        /\ InBuffer =>
             /\ out.data[13] = mem[Nalu.data - BufBase + 1]
             /\ WholePayload(out.data) = Slice(Nalu.data + 1, Nalu.len - 1)

\* a 4-byte start code and a 2-byte NALU give one 14-byte packet
C2_FourByteStartCode ==
    /\ out.kind = "packet"
    /\ Nalu.startCodeLen = 4 /\ Nalu.len = 2 /\ Max >= 2 /\ InBuffer
    /\ Len(out.data) = 14

(* C3: the payloads of the FU-A packets of a completed fragmented NALU,    *)
(* concatenated in emission order, are the NALU bytes from offset 1 to     *)
(* len - 1: len - 1 bytes, none lost, duplicated or reordered.             *)
C3_FragmentsReassemble ==
    (Completed /\ Fragmented) =>
        /\ ConcatPayloads(sent) = Slice(Nalu.data + 1, Nalu.len - 1)
        /\ Len(ConcatPayloads(sent)) = Nalu.len - 1
        /\ InBuffer

\* three fragments with non-empty first and middle payloads
C3_ThreeFragments == Completed /\ Fragmented /\ Len(sent) = 3 /\ Max = 2

(* C4: with q = len / max and r = len % max, the fragment count is q - 1   *)
(* and the last-fragment size max when r = 0, and q and r otherwise; a     *)
(* drained NALU gave fragment count + 1 packets, all FU-A, at least 2.     *)
C4_FragmentCount ==
    LET q == Nalu.len \div Max
        r == Nalu.len % Max
    IN Fragmented =>
        /\ impl.fuCounter = (IF r = 0 THEN q - 1 ELSE q)
        /\ impl.lastFuSize = (IF r = 0 THEN Max ELSE r)
        /\ \A i \in 1..Len(sent) : IsFuA(sent[i])
        /\ Len(sent) <= impl.fuCounter + 1
        /\ Completed => Len(sent) = impl.fuCounter + 1 /\ Len(sent) >= 2

\* an exact multiple: 4 bytes in fragments of 2
C4_ExactMultiple ==
    Completed /\ Fragmented /\ Nalu.len % Max = 0 /\ Max = 2 /\ Len(sent) = 2

(* C5: of the packets returned for one NALU exactly the one that ends it   *)
(* has the marker bit set: the single whole packet, or the last fragment.  *)
C5_MarkerOnLastOnly ==
    \A i \in 1..Len(sent) :
        MarkerOf(sent[i]) = 1 <=> (i = Len(sent) /\ impl.naluComplete)

\* a middle fragment without the marker, then the last one with it
C5_MarkerAfterMiddle ==
    /\ Completed /\ Fragmented /\ Len(sent) = 3
    /\ MarkerOf(sent[2]) = 0 /\ MarkerOf(sent[3]) = 1

(* C6: among the FU-A packets of one fragmented NALU the S bit is set on   *)
(* the first only, the E bit on the last only, the one whose index is the  *)
(* fragment count, and never both.                                         *)
C6_StartEndBits ==
    Fragmented =>
        \A i \in 1..Len(sent) :
            /\ SBit(sent[i]) = 1 <=> i = 1
            /\ EBit(sent[i]) = 1 <=> (i = Len(sent) /\ impl.naluComplete)
            /\ EBit(sent[i]) = 1 <=> i - 1 = impl.fuCounter
            /\ ~(SBit(sent[i]) = 1 /\ EBit(sent[i]) = 1)

\* two fragments of a NALU one or two bytes longer than the maximum of 3
C6_TwoFragments ==
    /\ Completed /\ Fragmented /\ Len(sent) = 2 /\ Max = 3
    /\ SBit(sent[1]) = 1 /\ EBit(sent[2]) = 1

(* C7 as stated: the last FU-A fragment always carries at least one        *)
(* payload byte.                                                           *)
C7_LastFragmentNeverEmpty ==
    \A i \in 1..Len(sent) :
        (IsFuA(sent[i]) /\ EBit(sent[i]) = 1) => Len(FuPayload(sent[i])) >= 1

(* C7 amended: the last FU-A fragment carries lastFuSize - 1 bytes, which  *)
(* is never negative; it is empty exactly when len % max = 1 or max = 1.   *)
C7_LastFragmentEmptyIffRemainderOne ==
    (Completed /\ Fragmented) =>
        LET last == sent[Len(sent)]
        IN /\ EBit(last) = 1
           /\ Len(last) = 14 + impl.lastFuSize - 1
           /\ Len(FuPayload(last)) = 0 <=> (Nalu.len % Max = 1 \/ Max = 1)

\* len = max + 1 with max = 3: the final fragment has no payload
C7_EmptyLastFragment ==
    /\ Completed /\ Fragmented /\ Max = 3 /\ Nalu.len = 4
    /\ Len(sent[Len(sent)]) = 14

(* C8 as stated: when len % max = 0 every fragment, the last included,     *)
(* carries exactly max payload bytes.                                      *)
C8_AllFragmentsFull ==
    (Completed /\ Fragmented /\ Nalu.len % Max = 0) =>
        \A i \in 1..Len(sent) : Len(FuPayload(sent[i])) = Max

(* C8 amended: when len % max = 0 every fragment but the last carries      *)
(* exactly max payload bytes and the last carries max - 1.                 *)
C8_LastFragmentOneShort ==
    (Completed /\ Fragmented /\ Nalu.len % Max = 0) =>
        \A i \in 1..Len(sent) :
            Len(FuPayload(sent[i])) = (IF i = Len(sent) THEN Max - 1 ELSE Max)

\* 4 bytes in fragments of 2: payloads of 2 and 1 bytes
C8_ExactMultipleDrained ==
    /\ Completed /\ Fragmented /\ Nalu.len = 4 /\ Max = 2
    /\ Len(FuPayload(sent[2])) = 1

(* C9: all FU-A packets of one NALU carry the timestamp computed when the  *)
(* first of them was produced, however far the clock has moved since.      *)
C9_OneTimestampPerNalu ==
    \A i \in 1..Len(sent) :
        /\ TimestampOf(sent[i]) = TimestampOf(sent[1])
        /\ TimestampOf(sent[i]) = impl.tsCurrentSample

\* a continuation fragment returned by a get called at a later clock value
C9_ClockMovedBetweenFragments ==
    /\ Len(sent) >= 2 /\ out.kind = "packet" /\ out.data = sent[Len(sent)]
    /\ Timestamp(calledAt) # TimestampOf(out.data)

(* C10: put is possible in every state and raises nothing; the first       *)
(* packet returned after it is the first packet of the first NALU of the   *)
(* new buffer, a whole packet or an FU-A fragment with S = 1, and every    *)
(* packet returned after it is built from the new buffer.                  *)
C10_PutAbandonsInPlace ==
    /\ ENABLED Put
    /\ out.kind = "packet" =>
         /\ sincePut = 1 =>
              /\ Nalu.data = BufBase + Nalu.startCodeLen
              /\ Len(sent) = 1
              /\ IF Nalu.len <= Max
                 THEN MarkerOf(out.data) = 1 /\ Len(out.data) = 12 + Nalu.len
                 ELSE IsFuA(out.data) /\ SBit(out.data) = 1 /\ EBit(out.data) = 0
         /\ out.data = sent[Len(sent)]
         /\ InBuffer =>
              IF Nalu.len <= Max
              THEN WholePayload(out.data) = Slice(Nalu.data + 1, Nalu.len - 1)
              ELSE FuPayload(out.data)
                     = Slice(Nalu.data + 1 + (Len(sent) - 1) * Max, Len(FuPayload(out.data)))

\* the put came while fragments were unsent, and the next packet starts a
\* fragmented NALU of the new buffer
C10_AfterAbandon ==
    /\ abandoned /\ sincePut = 1 /\ out.kind = "packet"
    /\ IsFuA(out.data) /\ SBit(out.data) = 1

\* the size get computes for the first packet of the current NALU
FirstSize == IF Nalu.len <= Max THEN Nalu.len + 12 ELSE Max + 14

(* C11: a get whose computed packet size exceeds the 10240 bytes of the    *)
(* scratch buffer raises and returns no packet, and only such a get        *)
(* raises; every returned packet has at most 10240 bytes and holds its     *)
(* header and its whole payload slice.                                     *)
C11_OverflowRaises ==
    /\ (out.kind \in {"packet", "overflow"} /\ Len(sent) <= 1) =>
          (out.kind = "overflow" <=> FirstSize > 10240)
    /\ out.kind = "overflow" => out.data = <<>> /\ sent = <<>>
    /\ out.kind = "packet" =>
          /\ Len(out.data) <= 10240
          /\ out.data = sent[Len(sent)]
          /\ IF Nalu.len <= Max
             THEN /\ Len(out.data) = 12 + Nalu.len
                  /\ InBuffer => WholePayload(out.data) = Slice(Nalu.data + 1, Nalu.len - 1)
             ELSE /\ Len(out.data) = 14 + (IF impl.naluComplete
                                           THEN impl.lastFuSize - 1 ELSE Max)
                  /\ InBuffer =>
                       FuPayload(out.data)
                         = Slice(Nalu.data + 1 + (Len(sent) - 1) * Max,
                                 Len(out.data) - 14)

\* a whole packet one byte too large was refused
C11_OneByteOver ==
    out.kind = "overflow" /\ Nalu.len <= Max /\ Nalu.len + 12 = 10241 /\ InBuffer

\* the bound buffer is NAL units back to back, each behind its start code
WellFormed == mem \in SingleUnits \cup TwoUnits

(* C12: once get has returned nothing, every further get before the next   *)
(* put returns nothing too, with no packet, no error and no change of the  *)
(* packetizer; a put re-arms it, and the get after a put of a well-formed  *)
(* buffer returns a packet.                                                *)
C12_ExhaustionSticky ==
    [][/\ (out.kind = "nothing" /\ out'.kind # "none") =>
            (out'.kind = "nothing" /\ impl' = impl /\ emitted' = emitted)
       /\ out'.kind = "none" => ~impl'.inBufferComplete
       /\ (out.kind = "none" /\ out'.kind # "none" /\ WellFormed) =>
            out'.kind = "packet"]_vars

\* packets were returned, then nothing, then nothing again
C12_NothingTwice == out.kind = "nothing" /\ idle >= 2 /\ sincePut >= 1

\* a step of get: put leaves out at NoCall, and only Tick moves the clock
GetStep == out'.kind # "none" /\ nowMs' = nowMs

\* get is about to look for a NAL unit, and whatever lies behind the
\* buffer, the bytes at the cursor are no start code
NoStartCodeAtCursor ==
    /\ ~impl.inBufferComplete /\ impl.naluComplete /\ impl.nextNaluPtr # NULL
    /\ \A slack \in SlackChoices(mem) :
         /\ ~isStartCode3(mem, slack, impl.nextNaluPtr)
         /\ ~isStartCode4(mem, slack, impl.nextNaluPtr)

(* C13: when the bytes at the scan cursor are neither a 3-byte nor a       *)
(* 4-byte start code, get returns nothing and raises nothing, marks the    *)
(* buffer drained and changes nothing else: no sequence number is used,    *)
(* the packets returned so far stand, and no later get returns a packet    *)
(* from that buffer.                                                       *)
C13_MissingStartCode ==
    [][/\ (GetStep /\ NoStartCodeAtCursor) =>
            /\ out'.kind = "nothing"
            /\ impl' = [impl EXCEPT !.inBufferComplete = TRUE]
            /\ emitted' = emitted /\ sent' = sent /\ lastSeq' = lastSeq
       /\ (GetStep /\ impl.inBufferComplete) =>
            (out'.kind = "nothing" /\ emitted' = emitted)]_vars

\* a buffer that starts with 0x65 instead of a start code gave nothing,
\* with its cursor still at the first byte
C13_GarbageAtFront ==
    /\ out.kind = "nothing" /\ impl.inBufferComplete
    /\ impl.nextNaluPtr = BufBase /\ Len(mem) = 5 /\ mem[1] = 101
    /\ emitted = <<>>

\* the NAL unit lengths a well-formed buffer was built from
Layouts ==
    {<<n>> : n \in 1..MaxNaluLen} \cup {<<n1, n2>> : n1 \in 1..MaxTailLen, n2 \in 1..MaxTailLen}

RECURSIVE Build(_)
Build(ls) == IF ls = <<>> THEN <<>> ELSE Unit(Head(ls)) \o Build(Tail(ls))

\* the bytes of a NAL unit of n bytes, header first
Body(n) == SubSeq(Unit(n), Len(Unit(n)) - n + 1, Len(Unit(n)))

\* the NAL units of the bound well-formed buffer, in buffer order
NalusOfBuffer ==
    LET ls == CHOOSE l \in Layouts : Build(l) = mem
    IN [i \in 1..Len(ls) |-> Body(ls[i])]

\* what a receiver rebuilds from packets: the NAL units completed so far
\* and the bytes of the one still open
RECURSIVE Depacketize(_, _, _)
Depacketize(pkts, done, partial) ==
    IF pkts = <<>> THEN [done |-> done, partial |-> partial]
    ELSE
      LET p == Head(pkts)
          hdr == (p[13] \div 32) * 32 + (p[14] % 32)
          body == IF SBit(p) = 1 THEN <<hdr>> \o FuPayload(p) ELSE partial \o FuPayload(p)
      IN IF ~IsFuA(p)
         THEN Depacketize(Tail(pkts), Append(done, SubSeq(p, 13, Len(p))), partial)
         ELSE IF EBit(p) = 1
         THEN Depacketize(Tail(pkts), Append(done, body), <<>>)
         ELSE Depacketize(Tail(pkts), done, body)

IsPrefix(a, b) == Len(a) <= Len(b) /\ a = SubSeq(b, 1, Len(a))

(* C14: for a well-formed buffer of k NAL units, the packets returned      *)
(* since the put rebuild NAL unit 1, then 2, ... in buffer order: the      *)
(* completed ones are the first units of the buffer, the open one is a     *)
(* prefix of the next, and when get returns nothing all k are there, each  *)
(* once.                                                                   *)
C14_BufferOrder ==
    WellFormed =>
        LET d == Depacketize(emitted, <<>>, <<>>)
            k == Len(d.done)
        IN /\ IsPrefix(d.done, NalusOfBuffer)
           /\ d.partial # <<>> =>
                k < Len(NalusOfBuffer) /\ IsPrefix(d.partial, NalusOfBuffer[k + 1])
           /\ d.partial # <<>> <=> ~impl.naluComplete
           /\ out.kind = "nothing" => (d.done = NalusOfBuffer /\ d.partial = <<>>)

\* a one-byte unit and a two-byte unit, the second in two fragments, drained
C14_TwoUnitsDrained ==
    /\ mem = Unit(1) \o Unit(2) /\ Max = 1
    /\ out.kind = "nothing" /\ Len(emitted) = 3
    /\ ~IsFuA(emitted[1]) /\ IsFuA(emitted[2]) /\ IsFuA(emitted[3])

(* C15: in the driver's loop every buffer is drained: whenever the last    *)
(* call was a put or a get that returned a packet, a later get returns     *)
(* nothing.                                                                *)
C15_DrainTerminates == (out.kind # "nothing") ~> (out.kind = "nothing")

\* a NAL unit in three fragments, then nothing
C15_DrainedAfterFragments ==
    out.kind = "nothing" /\ sincePut = 3 /\ Len(sent) = 3 /\ IsFuA(sent[2])

(* C16: every returned packet starts with the same 12-byte header: byte 0  *)
(* is 0x80, the low 7 bits of byte 1 are 96, bytes 2-3 hold the sequence   *)
(* number, bytes 4-7 the timestamp and bytes 8-11 the SSRC 1234, each      *)
(* most significant byte first; the SSRC bytes are those of every packet.  *)
C16_HeaderLayout ==
    /\ out.kind = "packet" =>
         LET p == out.data
         IN /\ Len(p) >= 12
            /\ \A i \in 1..Len(p) : p[i] \in 0..255
            /\ p[1] = 128
            /\ p[2] % 128 = 96
            /\ p[3] * 256 + p[4] = (impl.seqNum + 65535) % 65536
            /\ ((p[5] * 256 + p[6]) * 256 + p[7]) * 256 + p[8] = impl.tsCurrentSample
            /\ SubSeq(p, 9, 12) = <<0, 0, 4, 210>>
    /\ \A i \in 1..Len(emitted) :
         /\ emitted[i][1] = 128
         /\ emitted[i][2] % 128 = 96
         /\ SubSeq(emitted[i], 9, 12) = <<0, 0, 4, 210>>

\* sequence number 65535 and timestamp 90 in one header
C16_HighSeqLaterClock ==
    /\ out.kind = "packet"
    /\ SubSeq(out.data, 1, 12) = <<128, 224, 255, 255, 0, 0, 0, 90, 0, 0, 4, 210>>

(* C17: in every FU-A packet byte 12 is the FU indicator, type 28 with the *)
(* forbidden bit and nal_ref_idc of the NAL unit's header byte, and byte   *)
(* 13 the FU header, its low 5 bits the nal_unit_type and its reserved bit *)
(* 0: bytes 12 and 13 of any fragment give back the header byte.           *)
C17_FuBytes ==
    Fragmented =>
        \A i \in 1..Len(sent) :
            LET p == sent[i]
            IN /\ p[13] % 32 = 28
               /\ p[13] \div 128 = Nalu.forbiddenBit
               /\ (p[13] \div 32) % 4 = Nalu.nalRefIdc
               /\ p[14] % 32 = Nalu.nalUnitType
               /\ (p[14] \div 32) % 2 = 0
               /\ InBuffer =>
                    (p[13] \div 32) * 32 + (p[14] % 32) = mem[Nalu.data - BufBase + 1]

\* first, middle and last fragment of a unit with header 0x65
C17_ThreeFragmentsOf65 ==
    /\ Completed /\ Fragmented /\ InBuffer /\ Len(sent) = 3
    /\ mem[Nalu.data - BufBase + 1] = 101
    /\ \A i \in 1..3 : sent[i][13] = 124 /\ sent[i][14] % 32 = 5

C19_ForceOneFrame ==
    /\ \A i \in 1..Len(enc.submitted) :
         LET f == enc.submitted[i]
         IN /\ f.pts = i - 1
            /\ IF f.forced
               THEN f.pict_type = AV_PICTURE_TYPE_I /\ f.key_frame = 1
               ELSE /\ f.pict_type = AV_PICTURE_TYPE_NONE
                    /\ i > 1 => f.key_frame = 0
    /\ (enc.submitted # <<>> /\ ~enc.forced) =>
         enc.pict_type = AV_PICTURE_TYPE_NONE /\ enc.key_frame = 0

\* a forced frame the codec refused, then a frame without forceIFrame
C19_RefusedThenPlain ==
    /\ Len(enc.submitted) >= 2
    /\ enc.submitted[1].forced /\ enc.submitted[1].ret < 0
    /\ enc.submitted[1].pict_type = AV_PICTURE_TYPE_I
    /\ ~enc.submitted[2].forced
    /\ enc.submitted[2].pict_type = AV_PICTURE_TYPE_NONE

\* a 3- or 4-byte start code lies in the buffer at address a
StartCodeInBuffer(a) == Slice(a, 3) = StartCode3 \/ Slice(a, 4) = StartCode4

(* C20: when the cursor pointed at a start code of the buffer, the NAL     *)
(* unit the scanner yielded begins just past that start code and ends      *)
(* just before the first following start code of the buffer, or at the     *)
(* buffer end when there is none, and in that case the next scanner call   *)
(* yields nothing; the forbidden bit, nal_ref_idc and nal_unit_type are    *)
(* bit 7, bits 6-5 and bits 4-0 of the unit's first byte.                  *)
C20_ScannerSpan ==
    (sent # <<>> /\ StartCodeInBuffer(Nalu.data - Nalu.startCodeLen)) =>
        LET bufferEnd == BufBase + Len(mem)
            following == {p \in (Nalu.data + 1)..(bufferEnd - 1) : StartCodeInBuffer(p)}
            spanEnd == IF following = {} THEN bufferEnd ELSE Min(following)
        IN /\ Nalu.len = spanEnd - Nalu.data
           /\ impl.nextNaluPtr = (IF following = {} THEN NULL ELSE spanEnd)
           /\ Nalu.data < bufferEnd =>
                LET b == mem[Nalu.data - BufBase + 1]
                IN /\ Nalu.forbiddenBit = b \div 128
                   /\ Nalu.nalRefIdc = (b \div 32) % 4
                   /\ Nalu.nalUnitType = b % 32

(* C21: fragment i (0-based) of a fragmented NALU carries the slice of the *)
(* NALU that starts at offset 1 + i * max; it is max bytes long for every  *)
(* fragment but the last and lastSize - 1 for the last, lastSize computed  *)
(* over the length that includes the header byte (3000 bytes with max      *)
(* 1400: two fragments of 1400 and a last one of 199).                     *)
C21_FragmentSlices ==
    /\ (Fragmented /\ InBuffer) =>
         /\ impl.lastFuSize = (IF Nalu.len % Max = 0 THEN Max ELSE Nalu.len % Max)
         /\ \A i \in 1..Len(sent) :
              LET n == IF i - 1 = impl.fuCounter THEN impl.lastFuSize - 1 ELSE Max
              IN /\ Len(FuPayload(sent[i])) = n
                 /\ FuPayload(sent[i]) = Slice(Nalu.data + 1 + (i - 1) * Max, n)
    /\ FuCounterOf(3000, 1400) = 2
    /\ LastFuPayloadLen(LastFuSizeOf(3000, 1400)) = 199

\* 5 bytes with max 3: bytes 1-3 in the first fragment, byte 4 in the last
C21_ThreeThenOne ==
    /\ Completed /\ Fragmented /\ InBuffer /\ Max = 3 /\ Nalu.len = 5
    /\ FuPayload(sent[1]) = <<16, 17, 18>>
    /\ FuPayload(sent[2]) = <<19>>

(* C22: every NAL unit view the scanner yields lies inside the bound       *)
(* buffer: its start offset is below the buffer size and start + len is    *)
(* at most the buffer size, for every buffer content.                      *)
C22_ViewInsideBuffer ==
    sent # <<>> =>
        /\ Nalu.data - BufBase >= 0
        /\ Nalu.data - BufBase < Len(mem)
        /\ Nalu.data - BufBase + Nalu.len <= Len(mem)

\* the next get starts with a scan for a NAL unit
ScanPending == ~impl.inBufferComplete /\ impl.naluComplete /\ impl.nextNaluPtr # NULL

(* C23: while locating start codes the scanner reads only bytes at indices *)
(* 0 .. size-1 of the bound buffer, whatever the buffer holds and however  *)
(* short it is.                                                            *)
C23_ScanReadsInside ==
    ScanPending =>
        \A slack \in SlackChoices(mem) :
            ScanReads(impl, mem, slack) \subseteq BufBase..(BufBase + Len(mem) - 1)

\* a get that raises has consumed a sequence number and left the cursor
\* behind the NAL unit it refused; the get after it does not see that unit
OverflowMovesOn ==
    /\ (GetStep /\ out'.kind = "overflow") =>
         /\ impl'.seqNum = NextSeq(impl.seqNum)
         /\ impl'.nalu # impl.nalu
         /\ impl'.nextNaluPtr = NULL \/ impl'.nextNaluPtr = impl'.nalu.data + impl'.nalu.len
         /\ impl'.naluComplete /\ ~impl'.inBufferComplete
         /\ lastSeq' = lastSeq
    /\ (GetStep /\ out.kind = "overflow") =>
         \/ out'.kind = "nothing" /\ impl.nextNaluPtr = NULL
         \/ out'.kind \in {"packet", "overflow"} /\ impl'.nalu.data >= Nalu.data + Nalu.len

(* C24 as stated: a get that raises BufferOverflow has advanced the cursor *)
(* past the oversized NALU and consumed one sequence number; the next get  *)
(* continues with the following NALU or reports exhaustion, never raises   *)
(* for the same NALU, and the next returned packet's sequence number is 2  *)
(* above the last returned one.                                            *)
C24_GapOfTwo ==
    [][/\ OverflowMovesOn
       /\ (GetStep /\ skipped >= 1 /\ out'.kind = "packet" /\ lastSeq # NoSeq) =>
            lastSeq' = (lastSeq + 2) % SeqModulus]_vars

(* C24 amended: every get that raises consumes one sequence number, so the *)
(* next returned packet's sequence number is 1 + k above the last returned *)
(* one, k the number of gets that raised in between: 2 after one oversized *)
(* NALU, 3 after two in a row.                                             *)
C24_GapCountsRaises ==
    [][/\ OverflowMovesOn
       /\ (GetStep /\ out'.kind = "packet" /\ lastSeq # NoSeq) =>
            lastSeq' = (lastSeq + 1 + skipped) % SeqModulus]_vars

\* two oversized units in a row: the packet after them is 3 above
C24_TwoRefusedInARow ==
    /\ out.kind = "packet" /\ prevSeq # NoSeq /\ lastSeq = prevSeq + 3
    /\ mem \in SkipContents

(* C25: a get that returns nothing changes neither the sequence counter    *)
(* nor the stored timestamp: before any put on a new packetizer, on a      *)
(* buffer with a null data pointer, after exhaustion and at a missing      *)
(* start code; the next returned packet continues the sequence.            *)
C25_NothingKeepsCounters ==
    [][/\ (GetStep /\ out'.kind = "nothing") =>
            /\ impl'.seqNum = impl.seqNum
            /\ impl'.tsCurrentSample = impl.tsCurrentSample
            /\ lastSeq' = lastSeq
       /\ (GetStep /\ impl.inBuffer = NULL) => out'.kind = "nothing"
       /\ (GetStep /\ out'.kind = "packet" /\ lastSeq # NoSeq) =>
            lastSeq' = NextSeq(lastSeq)]_vars

\* nothing, for a missing start code, from a packetizer that had returned
\* packets at a later clock value
C25_NothingAfterPackets ==
    /\ out.kind = "nothing" /\ mem = <<101, 0, 0, 1, 101>>
    /\ lastSeq # NoSeq /\ impl.seqNum = NextSeq(lastSeq)
    /\ nowMs > 0 /\ calledAt = nowMs

(* C29: in every reachable state, when the NALU-complete flag is set the   *)
(* fragment index is 0; when it is clear the current NALU has len > max,   *)
(* the fragment count is at least 1 and 1 <= fragment index <= fragment    *)
(* count, and the slice the next get reads ends inside the NALU:           *)
(* 1 + index * max + slice length <= len.                                  *)
C29_FragmentIndexInRange ==
    /\ Max >= 1
    /\ IF impl.naluComplete
       THEN impl.fuIndex = 0
       ELSE /\ Nalu.len > Max
            /\ impl.fuCounter >= 1
            /\ 1 <= impl.fuIndex /\ impl.fuIndex <= impl.fuCounter
            /\ LET n == IF impl.fuIndex = impl.fuCounter THEN impl.lastFuSize - 1 ELSE Max
               IN /\ n >= 0
                  /\ 1 + impl.fuIndex * Max + n <= Nalu.len

\* after a put that abandoned a NALU: the new one has its last slice pending
C29_LastSlicePending ==
    abandoned /\ ~impl.naluComplete /\ impl.fuIndex = 2 /\ impl.fuCounter = 2

\* the buffers the driver does not own while the device streams
Dequeued == BufferIndices(cap) \ cap.queued

(* C27: getData hands out at most one dequeued buffer at a time; a buffer  *)
(* it returned goes back to the driver only in the next getData that gets  *)
(* past select, once, before another is dequeued; when that dequeue        *)
(* reports EAGAIN getData returns an empty Buffer, no buffer is held and   *)
(* none is queued twice.                                                   *)
C27_OneBufferOut ==
    /\ [](cap.streaming =>
            /\ Cardinality(Dequeued) <= 1
            /\ ~cap.queuedTwice
            /\ cap.requeues <= 1
            /\ IF cap.v4lBufPut
               THEN Dequeued = {}
               ELSE Dequeued = {cap.v4lBufIndex} /\ cap.handed = cap.v4lBufIndex
                    /\ cap.requeues = 0
            /\ cap.result = "buffer" => ~cap.v4lBufPut
            /\ cap.result = "again" => cap.v4lBufPut /\ cap.queued = BufferIndices(cap))
    /\ [][(cap.streaming /\ cap'.streaming /\ cap'.queued # cap.queued) =>
            /\ cap'.result \in {"buffer", "again", "CaptureException"}
            /\ cap.v4lBufPut => cap'.queued = cap.queued \ {cap'.v4lBufIndex}
            /\ ~cap.v4lBufPut =>
                 /\ cap.v4lBufIndex \in cap'.queued \/ cap'.v4lBufIndex = cap.v4lBufIndex
                 /\ cap'.result = "buffer" =>
                      cap'.queued = BufferIndices(cap) \ {cap'.v4lBufIndex}]_vars

\* the held buffer went back and the dequeue after it reported EAGAIN
C27_AgainAfterRequeue ==
    /\ cap.streaming /\ cap.result = "again"
    /\ cap.handed # NoBuffer /\ cap.requeues = 1 /\ cap.imageCounter = 2

\* what the loop writes to the dump file when bit k is the first clear one
StageOutput(k) ==
    IF k = 0 THEN "capture" ELSE IF k = 1 THEN "convert" ELSE IF k = 2 THEN "encode" ELSE "packet"

ClearBits(stage) == {k \in 0..3 : ~Bit(stage, k)}

(* C28: for every stage mask 0..15 and both pixel formats the loop uses    *)
(* only components that were constructed for the mask; a stage runs only   *)
(* when its bit and every lower bit is set, and the loop stops at the      *)
(* first clear bit and dumps that stage's output.                          *)
C28_OnlyBuiltComponents ==
    /\ drv.stage \in StageMasks
    /\ drv.used \subseteq drv.built
    /\ "convert" \in drv.used => Bit(drv.stage, 0) /\ ~drv.yuv420
    /\ "timestamp" \in drv.used => Bit(drv.stage, 0)
    /\ "encoder" \in drv.used => \A k \in 0..1 : Bit(drv.stage, k)
    /\ "packer" \in drv.used => \A k \in 0..2 : Bit(drv.stage, k)
    /\ "network" \in drv.used => \A k \in 0..3 : Bit(drv.stage, k)
    /\ drv.dumped # "none" =>
         /\ ClearBits(drv.stage) # {}
         /\ drv.dumped = StageOutput(Min(ClearBits(drv.stage)))

\* mask 7 with YUV420 input: packets dumped, convert and network never used
C28_PackedNotSent ==
    /\ drv.stage = 7 /\ drv.yuv420 /\ drv.dumped = "packet"
    /\ drv.used = {"capture", "timestamp", "encoder", "packer"}

\* the step is main's call of packer->put
DriverPutStep == drv.pc = "loop" /\ drv'.pc = "drain"

=============================================================================
